---------------------------- MODULE Spec2Model ----------------------------
(***************************************************************************)
(* A model of app.py, the newsletter viewer: the content repository        *)
(* (get_available_versions, load_content), the per-folder feedback.csv     *)
(* store (save_feedback, load_feedback) and the part of main() that selects *)
(* an edition and wires the rating / comment / submit widgets to the store. *)
(*                                                                         *)
(* Text is a sequence of one-character strings.  A CSV file is the         *)
(* sequence of its data rows, each row a record of four field texts (the   *)
(* csv writer's quoting is undone by the reader, so a field's text survives *)
(* a write and a read; what does not survive is pandas' reading of a field: *)
(* missing-value tokens and numeric columns, modelled in read_csv below).  *)
(***************************************************************************)
EXTENDS Integers, Sequences, FiniteSets, TLC

VARIABLES
    tree,       \* the files under CONTENT_DIR: path -> Absent or [mtime, kind]
    walk,       \* the order in which os.walk yields the files present
    dirExists,  \* whether CONTENT_DIR exists
    csv,        \* folder -> NoFile or the rows of its feedback.csv
    clock,      \* datetime.now(), in seconds
    ss,         \* st.session_state of the reader's session and its widget state
    view,       \* what the last run of main() rendered
    procs,      \* concurrent sessions inside save_feedback: pc, arguments, frame read
    last,       \* the last operation performed, its arguments and its result
    hist        \* what the reader did in the session, edition by edition

vars == <<tree, walk, dirExists, csv, clock, ss, view, procs, last, hist>>

(***************************************************************************)
(* Bounds of the model.                                                    *)
(***************************************************************************)
MaxRows == 2        \* feedback rows over all files
MaxClock == 2       \* seconds the clock can show
MaxMtime == 2       \* modification times of content files

(***************************************************************************)
(* Text.                                                                   *)
(***************************************************************************)
Whitespace == {" ", "\t"}

Digit == {"0", "1", "2", "3", "4", "5", "6", "7", "8", "9"}

RECURSIVE LStrip(_)
LStrip(s) == IF s # <<>> /\ Head(s) \in Whitespace THEN LStrip(Tail(s)) ELSE s

RECURSIVE RStrip(_)
RStrip(s) ==
    IF s # <<>> /\ s[Len(s)] \in Whitespace
    THEN RStrip(SubSeq(s, 1, Len(s) - 1))
    ELSE s

\* A strip that removes blanks only, as str.strip(" ") would.
RECURSIVE StripBlanks(_)
StripBlanks(s) ==
    IF s # <<>> /\ Head(s) = " " THEN StripBlanks(Tail(s))
    ELSE IF s # <<>> /\ s[Len(s)] = " "
         THEN StripBlanks(SubSeq(s, 1, Len(s) - 1))
         ELSE s

\* str.strip(): leading and trailing whitespace removed.
Strip(s) == RStrip(LStrip(s))

\* The texts a reader types into a comment box.
Texts ==
    { <<>>, <<" ", "\t">>, <<" ", "o", "k", " ">>, <<"7">>, <<"n", "/", "a">> }

\* The ratings a rating button stores; "" is the unset rating.
UP == <<"up">>        \* the thumbs-up character
DOWN == <<"down">>    \* the thumbs-down character
NoRating == <<>>
Ratings == {NoRating, UP, DOWN}

(***************************************************************************)
(* pandas: a DataFrame is the sequence of its rows, a row a record of      *)
(* cells, a cell a value with its type: a missing value (NaN), a string,   *)
(* an integer or a float (both held as Python prints them).                *)
(***************************************************************************)
Cols == {"Item", "Rating", "Comment", "SubmittedAt"}

NaN == [t |-> "nan", s |-> <<>>]
Str(s) == [t |-> "str", s |-> s]

\* What an f-string shows of a cell (main, lines 454-455).
Render(c) == IF c.t = "nan" THEN <<"n", "a", "n">> ELSE c.s

\* read_csv's default na_values, those spelt with the characters modelled.
NaValues ==
    { <<>>, <<"N", "A">>, <<"N", "/", "A">>, <<"n", "/", "a">>,
      <<"n", "a", "n">>, <<"N", "a", "N">>, <<"n", "u", "l", "l">>,
      <<"N", "U", "L", "L">>, <<"#", "N", "/", "A">>, <<"#", "N", "A">>,
      <<"<", "N", "A", ">">>, <<"-", "n", "a", "n">>, <<"-", "N", "a", "N">> }

IsIntText(s) == Len(s) >= 1 /\ \A i \in 1..Len(s) : s[i] \in Digit

IsFloatText(s) ==
    /\ Cardinality({i \in 1..Len(s) : s[i] = "."}) = 1
    /\ \A i \in 1..Len(s) : s[i] \in Digit \cup {"."}
    /\ Len(s) >= 2

IsNumericText(s) == IsIntText(s) \/ IsFloatText(s)

RECURSIVE DropLeadingZeros(_)
DropLeadingZeros(s) ==
    IF Len(s) > 1 /\ Head(s) = "0" THEN DropLeadingZeros(Tail(s)) ELSE s

RECURSIVE DropTrailingZeros(_)
DropTrailingZeros(s) ==
    IF Len(s) > 1 /\ s[Len(s)] = "0"
    THEN DropTrailingZeros(SubSeq(s, 1, Len(s) - 1))
    ELSE s

\* str(int(s)) of an integer text.
IntRepr(s) == DropLeadingZeros(s)

\* repr(float(s)) of a numeric text (no exponent within the texts modelled).
FloatRepr(s) ==
    IF IsIntText(s) THEN IntRepr(s) \o <<".", "0">>
    ELSE LET dot == CHOOSE i \in 1..Len(s) : s[i] = "."
             ip  == SubSeq(s, 1, dot - 1)
             fp  == SubSeq(s, dot + 1, Len(s))
         IN  DropLeadingZeros(IF ip = <<>> THEN <<"0">> ELSE ip)
               \o <<".">>
               \o DropTrailingZeros(IF fp = <<>> THEN <<"0">> ELSE fp)

\* The dtype read_csv infers for column c of the rows of a file: float64
\* when every field is missing or numeric with a missing or a fractional
\* one among them, int64 when every field is an integer, object otherwise.
ColumnType(rows, c) ==
    LET fields == {rows[i][c] : i \in 1..Len(rows)}
        given  == fields \ NaValues
    IN  IF \A f \in given : IsIntText(f)
        THEN IF fields \cap NaValues = {} /\ given # {} THEN "int" ELSE "float"
        ELSE IF \A f \in given : IsNumericText(f) THEN "float" ELSE "object"

ParseField(f, type) ==
    IF f \in NaValues THEN NaN
    ELSE IF type = "int" THEN [t |-> "int", s |-> IntRepr(f)]
    ELSE IF type = "float" THEN [t |-> "float", s |-> FloatRepr(f)]
    ELSE Str(f)

\* pd.read_csv(path): the DataFrame of a file's rows.
read_csv(rows) ==
    [i \in 1..Len(rows) |->
        [c \in Cols |-> ParseField(rows[i][c], ColumnType(rows, c))]]

\* The field to_csv writes for a cell: nothing for a missing value.
FormatCell(c) == IF c.t = "nan" THEN <<>> ELSE c.s

\* df.to_csv(path, index=False): the rows of the file written.
to_csv(df) == [i \in 1..Len(df) |-> [c \in Cols |-> FormatCell(df[i][c])]]

\* A concat with its frames in the other order.
concat_new_first(existing_df, new_entry) == new_entry \o existing_df

\* pd.concat([existing_df, new_entry], ignore_index=True): the cells keep
\* their values, the columns become object columns.
concat(existing_df, new_entry) == existing_df \o new_entry

(***************************************************************************)
(* The feedback store: one feedback.csv per week folder.                   *)
(***************************************************************************)
ROOT == "content_versions"
W44 == "content_versions/Week 44"
W45 == "content_versions/Week 45"
Folders == {ROOT, W44, W45}

\* get_feedback_path(week_folder): the file is named by its folder.
get_feedback_path(week_folder) == week_folder

NoFile == [exists |-> FALSE, rows |-> <<>>]
File(rows) == [exists |-> TRUE, rows |-> rows]

DigitSeq == <<"0", "1", "2", "3", "4", "5", "6", "7", "8", "9">>

\* datetime.now().strftime("%Y-%m-%d %H:%M:%S"): the seconds, the date and
\* the minute before them being the same for every reading of the clock.
Strftime(now) ==
    <<":", DigitSeq[(now \div 10) + 1], DigitSeq[(now % 10) + 1]>>

\* save_feedback, lines 109-114: the one-row frame of the new entry.
NewEntry(item_title, feedback, rating, now) ==
    << [ Item        |-> Str(item_title),
         Rating      |-> Str(IF rating # <<>> THEN rating ELSE <<>>),
         Comment     |-> Str(Strip(feedback)),
         SubmittedAt |-> Str(Strftime(now)) ] >>

\* save_feedback, lines 117-118: what a call reads of the file.
ReadExisting(file) ==
    [exists |-> file.exists,
     df     |-> IF file.exists THEN read_csv(file.rows) ELSE <<>>]

\* save_feedback, lines 117-121.
UpdatedDf(existing, new_entry) ==
    IF existing.exists THEN concat(existing.df, new_entry) ELSE new_entry

\* load_feedback(week_folder): the frame listed for a folder.
load_feedback(files, week_folder) ==
    LET file == files[get_feedback_path(week_folder)]
    IN  IF file.exists THEN read_csv(file.rows) ELSE <<>>

\* save_feedback run start to end with nothing between its read and its write:
\* the files afterwards.
save_feedback(files, item_title, feedback, rating, week_folder, now) ==
    IF Strip(feedback) = <<>> THEN files
    ELSE LET feedback_path == get_feedback_path(week_folder)
             new_entry == NewEntry(item_title, feedback, rating, now)
             updated_df == UpdatedDf(ReadExisting(files[feedback_path]), new_entry)
         IN  [files EXCEPT ![feedback_path] = File(to_csv(updated_df))]

TotalRows(files) ==
    LET RECURSIVE Sum(_)
        Sum(S) == IF S = {} THEN 0
                  ELSE LET d == CHOOSE x \in S : TRUE
                       IN  Len(files[d].rows) + Sum(S \ {d})
    IN  Sum(Folders)

\* The item titles of the editions modelled.
Titles == { <<"A">>, <<"B">>, <<"R">> }

NoFiles == [d \in Folders |-> NoFile]

NoOp == [op |-> "none", arg |-> <<>>, before |-> NoFiles, result |-> <<>>]

(***************************************************************************)
(* Sequential use of the feedback store: one caller, each call run from    *)
(* start to end.                                                           *)
(***************************************************************************)
\* save_feedback(item_title, feedback, rating, week_folder), lines 92-123.
SaveFeedbackCall(item_title, feedback, rating, week_folder) ==
    /\ Strip(feedback) # <<>> => TotalRows(csv) < MaxRows
    /\ csv' = save_feedback(csv, item_title, feedback, rating, week_folder, clock)
    /\ last' = [op     |-> "save_feedback",
                arg    |-> [item_title |-> item_title, feedback |-> feedback,
                            rating |-> rating, week_folder |-> week_folder,
                            now |-> clock],
                before |-> csv,
                result |-> <<>>]
    /\ UNCHANGED <<tree, walk, dirExists, clock, ss, view, procs, hist>>

\* load_feedback(week_folder), lines 126-139.
LoadFeedbackCall(week_folder) ==
    /\ last' = [op     |-> "load_feedback",
                arg    |-> [week_folder |-> week_folder],
                before |-> csv,
                result |-> load_feedback(csv, week_folder)]
    /\ UNCHANGED <<tree, walk, dirExists, csv, clock, ss, view, procs, hist>>

\* A second passes on the clock save_feedback reads.
Tick ==
    /\ clock < MaxClock
    /\ clock' = clock + 1
    /\ UNCHANGED <<tree, walk, dirExists, csv, ss, view, procs, last, hist>>

(***************************************************************************)
(* The content repository: the files under CONTENT_DIR.                    *)
(***************************************************************************)
P44 == "content_versions/Week 44/week 44.json"
P45 == "content_versions/Week 45/week 45.json"
PX == "content_versions/Week 45/extra.JSON"
PR == "content_versions/week 46.json"
PA == "content_versions/Week 44/Deep Dive.m4a"
Paths == {P44, P45, PX, PR, PA}

\* os.path.dirname(path)
dirname(p) ==
    CASE p \in {P44, PA} -> W44
      [] p \in {P45, PX} -> W45
      [] OTHER -> ROOT

\* os.path.splitext(os.path.basename(path))
splitext(p) ==
    CASE p = P44 -> <<"week 44", ".json">>
      [] p = P45 -> <<"week 45", ".json">>
      [] p = PX -> <<"extra", ".JSON">>
      [] p = PR -> <<"week 46", ".json">>
      [] OTHER -> <<"Deep Dive", ".m4a">>

\* str.lower() of a file name's extension
lower(ext) == IF ext = ".JSON" THEN ".json" ELSE ext

\* What a file holds: a JSON object, a JSON value that is no object, text
\* that is not JSON, or audio.
Kinds == {"object", "value", "malformed"}

Absent == [present |-> FALSE, mtime |-> 0, kind |-> "none"]

FileStates(p) ==
    {Absent} \cup
    [present : {TRUE}, mtime : 1..MaxMtime,
     kind : IF p = PA THEN {"audio"}
            ELSE IF p = PX THEN {"object"} ELSE Kinds]

Present(t) == {p \in Paths : t[p].present}

Orderings(S) ==
    {w \in [1..Cardinality(S) -> S] : \A x \in S : \E i \in DOMAIN w : w[i] = x}

\* os.walk(CONTENT_DIR) is top-down: the files of the root come first, then
\* each folder's files together, the folders and the files of one folder in
\* the order the file system lists them.
WalkOrders(t) ==
    {w \in Orderings(Present(t)) :
        \A i, j, k \in DOMAIN w :
            /\ (i < j /\ dirname(w[j]) = ROOT) => dirname(w[i]) = ROOT
            /\ (i < j /\ j < k /\ dirname(w[i]) = dirname(w[k]))
                   => dirname(w[j]) = dirname(w[i])}

\* The place a sort without reverse=True gives x.
RECURSIVE InsertByMtimeAscending(_, _, _)
InsertByMtimeAscending(t, x, sorted) ==
    IF sorted = <<>> THEN <<x>>
    ELSE IF t[Head(sorted)].mtime <= t[x].mtime
         THEN <<Head(sorted)>> \o InsertByMtimeAscending(t, x, Tail(sorted))
         ELSE <<x>> \o sorted

\* The place list.sort(key=getmtime, reverse=True) gives x among elements
\* already sorted: behind every element at least as new (the sort is stable).
RECURSIVE InsertByMtime(_, _, _)
InsertByMtime(t, x, sorted) ==
    IF sorted = <<>> THEN <<x>>
    ELSE IF t[Head(sorted)].mtime >= t[x].mtime
         THEN <<Head(sorted)>> \o InsertByMtime(t, x, Tail(sorted))
         ELSE <<x>> \o sorted

RECURSIVE SortByMtime(_, _)
SortByMtime(t, paths) ==
    IF paths = <<>> THEN <<>>
    ELSE InsertByMtime(t, paths[Len(paths)],
                       SortByMtime(t, SubSeq(paths, 1, Len(paths) - 1)))

IsJsonName(p) == lower(splitext(p)[2]) = ".json"

\* get_available_versions(), lines 43-49: what it returns.
get_available_versions(t, w) ==
    SortByMtime(t, SelectSeq(w, IsJsonName))

\* A file_path argument: None, or a string.
NoneRef == [given |-> FALSE, path |-> ""]
PathRef(p) == [given |-> TRUE, path |-> p]
Refs == {NoneRef, PathRef("")} \cup {PathRef(p) : p \in Paths}

\* `if file_path:`
Truthy(ref) == ref.given /\ ref.path # ""

\* os.path.isfile(path)
isfile(t, path) == path \in Paths /\ t[path].present

\* The exception lines 75-78 raise on a file: json.load on text that is not
\* JSON, the item assignment on a value that is no object.
Raised(kind) ==
    CASE kind = "object" -> "none"
      [] kind = "value" -> "TypeError"
      [] OTHER -> "JSONDecodeError"

\* An `except json.JSONDecodeError` in the place of line 80.
CaughtJsonOnly(exc) == exc = "JSONDecodeError"

\* `except Exception`, line 80: every exception of lines 75-78 is caught.
Caught(exc) == exc # "none"

None == [outcome |-> "None", path |-> "", base_dir |-> "", warned |-> FALSE]

\* A load_content whose default is the last of the versions, not the first.
load_content_oldest(t, w, file_path) ==
    LET versions == get_available_versions(t, w)
        version_file ==
            IF Truthy(file_path) THEN file_path.path
            ELSE IF versions # <<>> THEN versions[Len(versions)] ELSE ""
    IN  IF version_file = "" \/ ~isfile(t, version_file) THEN None
        ELSE LET exc == Raised(t[version_file].kind)
             IN  IF exc = "none"
                 THEN [outcome |-> "dict", path |-> version_file,
                       base_dir |-> dirname(version_file), warned |-> FALSE]
                 ELSE IF Caught(exc) THEN [None EXCEPT !.warned = TRUE]
                 ELSE [None EXCEPT !.outcome = exc]

\* load_content(file_path), lines 64-82: the document returned (its fields
\* are those of the file at `path`, with _base_dir added), None, or the
\* exception that leaves the function.
load_content(t, w, file_path) ==
    LET versions == get_available_versions(t, w)
        version_file ==
            IF Truthy(file_path) THEN file_path.path
            ELSE IF versions # <<>> THEN versions[1] ELSE ""
    IN  IF version_file = "" \/ ~isfile(t, version_file) THEN None
        ELSE LET exc == Raised(t[version_file].kind)
             IN  IF exc = "none"
                 THEN [outcome |-> "dict", path |-> version_file,
                       base_dir |-> dirname(version_file), warned |-> FALSE]
                 ELSE IF Caught(exc) THEN [None EXCEPT !.warned = TRUE]
                 ELSE [None EXCEPT !.outcome = exc]

\* get_available_versions(), lines 35-49.
GetAvailableVersionsCall ==
    /\ dirExists' = TRUE
    /\ last' = [op |-> "get_available_versions", arg |-> <<>>,
                before |-> csv, result |-> get_available_versions(tree, walk)]
    /\ UNCHANGED <<tree, walk, csv, clock, ss, view, procs, hist>>

\* load_content(file_path), lines 52-82.
LoadContentCall(file_path) ==
    /\ dirExists' = (dirExists \/ ~Truthy(file_path))
    /\ last' = [op |-> "load_content", arg |-> [file_path |-> file_path],
                before |-> csv, result |-> load_content(tree, walk, file_path)]
    /\ UNCHANGED <<tree, walk, csv, clock, ss, view, procs, hist>>

(***************************************************************************)
(* main(): one reader's session.  Every interaction reruns the script.     *)
(***************************************************************************)
\* The items of each edition: content.get("top_developments", []) and
\* content.get("regional_overviews", []), by title.
Items(path, section) ==
    CASE path = P44 -> IF section = "top" THEN << <<"A">> >> ELSE << <<"R">> >>
      [] path = P45 -> IF section = "top" THEN << <<"B">> >> ELSE <<>>
      [] path = PX -> IF section = "top" THEN << <<"A">> >> ELSE <<>>
      [] OTHER -> IF section = "top" THEN << <<"B">> >> ELSE << <<"R">> >>

\* The widget keys f"..._top_{idx}" and f"..._region_{idx}" of the items.
Keys == { <<"top", 0>>, <<"region", 0>> }

\* Whether the loop of lines 323 / 390 reaches the item of key k.
Rendered(path, k) == k[2] < Len(Items(path, k[1]))

TitleOf(path, k) == Items(path, k[1])[k[2] + 1]

\* st.session_state before the first run: nothing set, no widget state.
FreshSession ==
    [ radio        |-> "",
      has_feedback |-> FALSE,
      feedback     |-> [t \in Titles |-> [set |-> FALSE, text |-> <<>>]],
      inited       |-> {},
      rating       |-> [k \in Keys |-> NoRating],
      submitted    |-> [k \in Keys |-> FALSE],
      text         |-> [k \in Keys |-> <<>>] ]

NoView ==
    [ shown |-> "none", content |-> "none", label |-> "", path |-> "",
      week_folder |-> "" ]

\* Lines 236-242: the sidebar's labels, one per version.
Labels(versions) == [i \in DOMAIN versions |-> splitext(versions[i])[1]]

\* Lines 245-247: the radio keeps the label chosen, and starts at index 0.
RadioValue(s, versions) ==
    IF \E i \in DOMAIN versions : Labels(versions)[i] = s.radio
    THEN s.radio
    ELSE Labels(versions)[1]

\* Lines 249-252: the first version whose label is the selected one.
SelectedFile(versions, label) ==
    versions[CHOOSE i \in DOMAIN versions :
                /\ Labels(versions)[i] = label
                /\ \A j \in 1..(i - 1) : Labels(versions)[j] # label]

\* One run of main() on session state s and feedback files `files`: the
\* session state and the page it leaves.
Main(t, w, s, files) ==
    LET versions == get_available_versions(t, w)
        selected_label == IF versions # <<>> THEN RadioValue(s, versions) ELSE ""
        selected_content_file ==
            IF versions # <<>>
            THEN PathRef(SelectedFile(versions, selected_label))
            ELSE NoneRef
        content == load_content(t, w, selected_content_file)
        s1 == [s EXCEPT !.radio = selected_label]
    IN  IF content.outcome # "dict"
        THEN \* lines 258-261: the placeholder; no item widget is rendered
             [ ss   |-> [s1 EXCEPT !.text = [k \in Keys |-> <<>>]],
               view |-> [NoView EXCEPT
                            !.shown = IF content.outcome = "None"
                                      THEN "placeholder" ELSE "error",
                            !.content = content.outcome,
                            !.label = selected_label] ]
        ELSE LET shown == {k \in Keys : Rendered(content.path, k)}
             IN  [ ss   |-> [s1 EXCEPT
                               !.has_feedback = TRUE,
                               !.inited = @ \cup shown,
                               !.text = [k \in Keys |->
                                            IF k \in shown THEN @[k] ELSE <<>>]],
                   view |-> [ shown |-> "page", content |-> "dict",
                              label |-> selected_label,
                              path |-> content.path,
                              week_folder |-> content.base_dir ] ]

Rerun(s, files) ==
    LET run == Main(tree, walk, s, files)
    IN  /\ ss' = run.ss
        /\ view' = run.view
        /\ csv' = files
        /\ dirExists' = TRUE
        /\ UNCHANGED <<tree, walk, clock, procs>>

\* The reader's doings in the session: the items submitted and the rating
\* last chosen for an item, each under the edition (the content file) that
\* was selected at the click.
NoHistory ==
    [ submitted |-> {},
      chosen    |-> [e \in Paths |-> [k \in Keys |-> NoRating]] ]

\* A run of the script in which save_feedback is not called: picking an
\* edition, typing, rating.
UiOp ==
    [op |-> "ui", arg |-> <<>>, before |-> csv, result |-> <<>>]

\* The reader opens the page: the first run of the script.
OpenPage ==
    /\ view.shown = "none"
    /\ Rerun(ss, csv)
    /\ last' = [UiOp EXCEPT !.op = "open"]
    /\ UNCHANGED hist

\* The reader picks an edition in the sidebar (lines 245-247).
SelectEdition(label) ==
    /\ view.shown \in {"page", "placeholder"}
    /\ label # view.label
    /\ \E i \in DOMAIN get_available_versions(tree, walk) :
           Labels(get_available_versions(tree, walk))[i] = label
    /\ Rerun([ss EXCEPT !.radio = label], csv)
    /\ last' = UiOp
    /\ UNCHANGED hist

\* The reader types into the comment box of an item (lines 368-371, 430-432).
TypeText(k, text) ==
    /\ view.shown = "page"
    /\ Rendered(view.path, k)
    /\ text # ss.text[k]
    /\ Rerun([ss EXCEPT !.text[k] = text], csv)
    /\ last' = UiOp
    /\ UNCHANGED hist

\* The reader clicks a rating button of an item (lines 355-362, 418-425).
ClickRating(k, thumb) ==
    /\ view.shown = "page"
    /\ Rendered(view.path, k)
    /\ Rerun([ss EXCEPT !.rating[k] = thumb], csv)
    /\ last' = UiOp
    /\ hist' = [hist EXCEPT !.chosen[view.path][k] = thumb]

\* The reader clicks the submit button of an item (lines 374-381, 435-442).
ClickSubmit(k) ==
    /\ view.shown = "page"
    /\ Rendered(view.path, k)
    /\ ~ss.submitted[k]
    /\ LET title == TitleOf(view.path, k)
           user_feedback == ss.text[k]
           rating == ss.rating[k]
       IN  /\ Rerun([ss EXCEPT !.feedback[title] =
                                     [set |-> TRUE, text |-> user_feedback],
                                !.submitted[k] = TRUE],
                    save_feedback(csv, title, user_feedback, rating,
                                  view.week_folder, clock))
           /\ last' = [op |-> "submit",
                       arg |-> [key |-> k, item_title |-> title,
                                feedback |-> user_feedback, rating |-> rating,
                                label |-> view.label, path |-> view.path,
                                week_folder |-> view.week_folder, now |-> clock],
                       before |-> csv, result |-> <<>>]
           /\ hist' = [hist EXCEPT !.submitted = @ \cup {<<view.path, k>>}]

(***************************************************************************)
(* Two sessions inside save_feedback at once: the script of each session   *)
(* runs in a thread of its own, and nothing orders the read of line 118    *)
(* and the write of line 123 of one session against the other's.           *)
(***************************************************************************)
Procs == {"s1", "s2"}

Idle ==
    [ pc |-> "idle", feedback_path |-> "", new_entry |-> <<>>,
      updated_df |-> <<>>, completed |-> [d \in Folders |-> 0] ]

InFlight == Cardinality({p \in Procs : procs[p].pc # "idle"})

\* Lines 102-114: the call returns on an empty comment, and otherwise reads
\* the clock and builds the new entry.
Begin(p, item_title, feedback, rating, week_folder) ==
    /\ procs[p].pc = "idle"
    /\ Strip(feedback) # <<>> => TotalRows(csv) + InFlight < MaxRows
    /\ procs' = IF Strip(feedback) = <<>> THEN procs
                ELSE [procs EXCEPT ![p] =
                        [@ EXCEPT !.pc = "read",
                                  !.feedback_path = get_feedback_path(week_folder),
                                  !.new_entry = NewEntry(item_title, feedback,
                                                         rating, clock)]]
    /\ last' = [op |-> "begin", arg |-> [proc |-> p], before |-> csv,
                result |-> <<>>]
    /\ UNCHANGED <<tree, walk, dirExists, csv, clock, ss, view, hist>>

\* Lines 117-121: the file is read, if there is one, and the entry appended
\* to the frame read.
ReadStep(p) ==
    /\ procs[p].pc = "read"
    /\ procs' = [procs EXCEPT ![p] =
                    [@ EXCEPT !.pc = "write",
                              !.updated_df =
                                  UpdatedDf(
                                      ReadExisting(csv[procs[p].feedback_path]),
                                      procs[p].new_entry)]]
    /\ last' = [op |-> "read", arg |-> [proc |-> p], before |-> csv,
                result |-> <<>>]
    /\ UNCHANGED <<tree, walk, dirExists, csv, clock, ss, view, hist>>

\* Line 123: the frame is written over the file, and the call returns.
WriteStep(p) ==
    /\ procs[p].pc = "write"
    /\ csv' = [csv EXCEPT ![procs[p].feedback_path] =
                              File(to_csv(procs[p].updated_df))]
    /\ procs' = [procs EXCEPT ![p] =
                    [@ EXCEPT !.pc = "idle",
                              !.completed[procs[p].feedback_path] = @ + 1]]
    /\ last' = [op |-> "write", arg |-> [proc |-> p], before |-> csv,
                result |-> <<>>]
    /\ UNCHANGED <<tree, walk, dirExists, clock, ss, view, hist>>

(***************************************************************************)
(* The specifications.                                                     *)
(***************************************************************************)
\* Both week folders hold an edition, one of them two.
FullTree ==
    [p \in Paths |->
        CASE p = P44 -> [present |-> TRUE, mtime |-> 3, kind |-> "object"]
          [] p = P45 -> [present |-> TRUE, mtime |-> 2, kind |-> "object"]
          [] p = PX -> [present |-> TRUE, mtime |-> 1, kind |-> "object"]
          [] OTHER -> Absent]

EmptyTree == [p \in Paths |-> Absent]

\* Two editions that do not load: a JSON list, and text that is not JSON.
BrokenTree ==
    [EmptyTree EXCEPT
        ![P45] = [present |-> TRUE, mtime |-> 2, kind |-> "value"],
        ![PR] = [present |-> TRUE, mtime |-> 1, kind |-> "malformed"]]

\* The order of os.walk taken where the files' modification times differ
\* pairwise, so that the order of the listing does not reach the sorted result.
SomeWalk(t) == CHOOSE w \in WalkOrders(t) : TRUE

InitRest ==
    /\ csv = NoFiles
    /\ clock = 1
    /\ ss = FreshSession
    /\ view = NoView
    /\ procs = [p \in Procs |-> Idle]
    /\ last = NoOp
    /\ hist = NoHistory

\* A reader's session on a content directory.
Init ==
    /\ tree \in {FullTree, EmptyTree, BrokenTree}
    /\ walk = SomeWalk(tree)
    /\ dirExists \in (IF tree = EmptyTree THEN BOOLEAN ELSE {TRUE})
    /\ InitRest

\* What the reader of the session types.
UiTexts == { <<" ", "\t">>, <<" ", "o", "k", " ">> }

Next ==
    \/ OpenPage
    \/ \E label \in {"week 44", "week 45", "extra", "week 46"} :
           SelectEdition(label)
    \/ \E k \in Keys, text \in UiTexts : TypeText(k, text)
    \/ \E k \in Keys, thumb \in {UP, DOWN} : ClickRating(k, thumb)
    \/ \E k \in Keys : ClickSubmit(k)

Spec == Init /\ [][Next]_vars

\* The feedback store used by one caller, call after call.
SeqTitles == { <<"A">> }
SeqRatings == {NoRating, UP}
SeqFolders == {W44, W45}

InitSeq ==
    /\ tree = FullTree
    /\ walk = SomeWalk(tree)
    /\ dirExists = TRUE
    /\ InitRest

NextSeq ==
    \/ \E t \in SeqTitles, f \in Texts, r \in SeqRatings, w \in SeqFolders :
           SaveFeedbackCall(t, f, r, w)
    \/ \E w \in SeqFolders : LoadFeedbackCall(w)
    \/ Tick

SpecSeq == InitSeq /\ [][NextSeq]_vars

\* The feedback store used by two sessions at once, within one second of
\* the clock.
ConcRatings == {NoRating}
ConcTexts == { <<>>, <<" ", "o", "k", " ">>, <<"7">> }

NextConc ==
    \/ \E p \in Procs, t \in SeqTitles, f \in ConcTexts, r \in ConcRatings,
          w \in SeqFolders : Begin(p, t, f, r, w)
    \/ \E p \in Procs : ReadStep(p)
    \/ \E p \in Procs : WriteStep(p)

SpecConc == InitSeq /\ [][NextConc]_vars

\* The content repository's two functions, and the first run of main(),
\* over every content directory.
ContentPaths == {P44, P45, PX, PA}

InitContent ==
    /\ tree \in {t \in [Paths -> UNION {FileStates(p) : p \in Paths}] :
                    \A p \in Paths :
                        /\ t[p] \in FileStates(p)
                        /\ p \notin ContentPaths => t[p] = Absent}
    /\ walk \in WalkOrders(tree)
    /\ dirExists \in (IF tree = EmptyTree THEN BOOLEAN ELSE {TRUE})
    /\ InitRest

NextContent ==
    \/ GetAvailableVersionsCall
    \/ \E ref \in Refs : LoadContentCall(ref)
    \/ OpenPage

SpecContent == InitContent /\ [][NextContent]_vars

(***************************************************************************)
(* The properties.                                                         *)
(***************************************************************************)
\* A comment that is empty or whitespace only.
IsBlank(s) == \A i \in 1..Len(s) : s[i] \in Whitespace

SavedEntry == last.op = "save_feedback" /\ ~IsBlank(last.arg.feedback)

ListedBefore(w) == load_feedback(last.before, w)
ListedAfter(w) == load_feedback(csv, w)

\* C1: save_feedback with an empty or whitespace-only comment changes
\* nothing: every folder's feedback is listed as before the call and no
\* feedback file comes to exist.
C1_BlankCommentNoEffect ==
    (last.op = "save_feedback" /\ IsBlank(last.arg.feedback)) =>
        \A w \in Folders :
            /\ ListedAfter(w) = ListedBefore(w)
            /\ csv[w] = last.before[w]

C1_Witness ==
    /\ last.op = "save_feedback"
    /\ last.arg.feedback = <<" ", "\t">>
    /\ ~csv[last.arg.week_folder].exists
    /\ \E w \in Folders : csv[w].exists

\* The rating of a listed entry, a missing value standing for the unset one.
RatingShown(c) == IF c.t = "nan" THEN NoRating ELSE c.s

Carries(row, a) ==
    /\ Render(row.Item) = a.item_title
    /\ RatingShown(row.Rating) = a.rating
    /\ Render(row.Comment) = Strip(a.feedback)

\* C2: save_feedback with a comment that is not blank adds exactly one entry
\* to the edition's feedback, and that entry is listed with the title, the
\* rating and the comment of the call (the comment without the whitespace
\* around it); on an empty store it is the one entry listed.
C2_EntryCarriesArguments ==
    SavedEntry =>
        LET a == last.arg
            before == ListedBefore(a.week_folder)
            after == ListedAfter(a.week_folder)
        IN  /\ Len(after) = Len(before) + 1
            /\ \E i \in DOMAIN after : Carries(after[i], a)
            /\ before = <<>> => (Len(after) = 1 /\ Carries(after[1], a))

\* C3: the store is append-only: every entry listed for an edition before a
\* save_feedback call is listed after it with the same title, rating,
\* comment and timestamp.
C3_AppendOnly ==
    last.op = "save_feedback" =>
        \A w \in Folders :
            \A i \in DOMAIN ListedBefore(w) :
                \E j \in DOMAIN ListedAfter(w) :
                    \A c \in Cols :
                        Render(ListedAfter(w)[j][c]) = Render(ListedBefore(w)[i][c])

Stamps(df) == [i \in DOMAIN df |-> Render(df[i].SubmittedAt)]

\* C4, as documented: the feedback of an edition is listed most recent first, an
\* entry appended later standing before the entries appended earlier.
C4_MostRecentFirst ==
    SavedEntry =>
        Stamps(ListedAfter(last.arg.week_folder))
            = <<Strftime(last.arg.now)>> \o Stamps(ListedBefore(last.arg.week_folder))

\* C4, as implemented: the feedback of an edition is listed in the order it was
\* appended, oldest first: an entry appended later stands after the entries
\* appended earlier; load_feedback returns one entry per row of the file, and
\* the empty frame when the edition has no feedback file.
C4_OldestFirst ==
    /\ SavedEntry =>
          Stamps(ListedAfter(last.arg.week_folder))
              = Stamps(ListedBefore(last.arg.week_folder)) \o <<Strftime(last.arg.now)>>
    /\ last.op = "load_feedback" =>
          /\ Len(last.result) = Len(csv[last.arg.week_folder].rows)
          /\ ~csv[last.arg.week_folder].exists => last.result = <<>>

C4_Witness ==
    /\ SavedEntry
    /\ Len(ListedAfter(last.arg.week_folder)) = 2
    /\ Stamps(ListedAfter(last.arg.week_folder))[1] = Strftime(1)
    /\ Stamps(ListedAfter(last.arg.week_folder))[2] = Strftime(2)

\* The editions the sidebar offers.
Selectable == {p \in Paths : isfile(tree, p) /\ IsJsonName(p)}

\* C5: feedback is separated per edition: a submission made while one
\* edition is selected leaves the feedback listed for every other edition
\* of the sidebar as it was.
C5_SeparatedPerEdition ==
    last.op = "submit" =>
        \A B \in Selectable :
            splitext(B)[1] # last.arg.label =>
                load_feedback(csv, dirname(B)) = load_feedback(last.before, dirname(B))

\* The calls with a comment completed on a feedback file by the two sessions.
Completed(d) ==
    LET RECURSIVE Sum(_)
        Sum(S) == IF S = {} THEN 0
                  ELSE LET p == CHOOSE x \in S : TRUE
                       IN  procs[p].completed[d] + Sum(S \ {p})
    IN  Sum(Procs)

\* C6: two sessions appending to one feedback file can clobber an entry: a
\* call that completes leaves its own entry as the last row of the file, and
\* a file holds at least one row and at most one row per call completed on
\* it (the witness is a file with fewer rows than calls completed: an entry
\* of a completed call is gone).
C6_FileHoldsAtMostTheCompletedCalls ==
    /\ \A d \in Folders :
          /\ Len(csv[d].rows) <= Completed(d)
          /\ Completed(d) >= 1 => Len(csv[d].rows) >= 1
    /\ last.op = "write" =>
          LET p == last.arg.proc
              rows == csv[procs[p].feedback_path].rows
          IN  rows[Len(rows)] = to_csv(procs[p].new_entry)[1]

C6_Witness ==
    \E d \in Folders :
        /\ \A p \in Procs : procs[p].pc = "idle" /\ procs[p].completed[d] = 1
        /\ procs["s1"].new_entry # procs["s2"].new_entry
        /\ Len(csv[d].rows) = 1

Versions == get_available_versions(tree, walk)

\* C7: load_content without a reference returns what load_content returns
\* for the first of get_available_versions(), and None when there is none.
C7_DefaultIsNewest ==
    (last.op = "load_content" /\ last.arg.file_path = NoneRef) =>
        IF Versions # <<>>
        THEN last.result = load_content(tree, walk, PathRef(Versions[1]))
        ELSE last.result = None

C7_Witness ==
    /\ last.op = "load_content"
    /\ last.arg.file_path = NoneRef
    /\ Len(Versions) >= 2
    /\ last.result.outcome = "dict"
    /\ tree[Versions[1]].mtime > tree[Versions[2]].mtime

\* The file load_content is asked for: the one given, or the newest JSON file.
Asked(ref) ==
    IF ref.given /\ ref.path # ""
    THEN {ref.path}
    ELSE {p \in Selectable :
            \A q \in Selectable : tree[q].mtime <= tree[p].mtime}

\* C8: load_content raises nothing: it returns a document or None, and None
\* for a missing file, for an empty content directory and for a file that is
\* not JSON; main() then shows the placeholder and the feedback files are
\* as they were.
C8_NotFoundNotRaised ==
    /\ last.op = "load_content" =>
          /\ last.result.outcome \in {"dict", "None"}
          /\ (\A p \in Asked(last.arg.file_path) :
                  ~isfile(tree, p) \/ tree[p].kind = "malformed")
                => last.result.outcome = "None"
    /\ last.op = "open" =>
          /\ view.shown \in {"page", "placeholder"}
          /\ (Selectable = {}
                \/ \A p \in Asked(NoneRef) : tree[p].kind = "malformed")
                => view.shown = "placeholder"
          /\ view.shown = "placeholder" => csv = last.before

C8_Witness ==
    /\ last.op = "open"
    /\ view.shown = "placeholder"
    /\ Selectable # {}
    /\ \A p \in Asked(NoneRef) : tree[p].kind = "malformed"

\* The JSON documents under the content root.
JsonDocuments == Present(tree) \cap {P44, P45, PX, PR}

\* C9: get_available_versions returns every JSON document under the content
\* root once, newest first (strictly, where the modification times differ),
\* and the empty sequence when the root is empty or absent, which it creates.
C9_VersionsNewestFirst ==
    last.op = "get_available_versions" =>
        LET v == last.result
        IN  /\ {v[i] : i \in DOMAIN v} = JsonDocuments
            /\ Len(v) = Cardinality(JsonDocuments)
            /\ \A i \in 1..(Len(v) - 1) : tree[v[i]].mtime >= tree[v[i + 1]].mtime
            /\ (\A p, q \in JsonDocuments : p # q => tree[p].mtime # tree[q].mtime)
                  => \A i \in 1..(Len(v) - 1) : tree[v[i]].mtime > tree[v[i + 1]].mtime
            /\ Present(tree) = {} => v = <<>>
            /\ dirExists

C9_Witness ==
    /\ last.op = "get_available_versions"
    /\ Len(last.result) = 2
    /\ tree[last.result[1]].mtime > tree[last.result[2]].mtime
    /\ last.result # SelectSeq(walk, IsJsonName)
    /\ \E p \in Present(tree) : ~IsJsonName(p)

\* C10: an item is shown as submitted only if the session's save_feedback
\* call for it added an entry to the store.
C10_SubmittedMeansSaved ==
    \A k \in Keys :
        ss.submitted[k] =>
            \E d \in Folders : \E i \in DOMAIN csv[d].rows :
                \E p \in Selectable :
                    /\ Rendered(p, k)
                    /\ csv[d].rows[i].Item = TitleOf(p, k)

\* C11: the rating and the submitted flag of an item belong to that item in
\* that edition: an item of the selected edition is shown as submitted only
\* if the reader submitted it while that edition was selected, and an entry
\* is stored with the rating the reader last chose for that item in that
\* edition (unset if none was chosen there).
C11_FlagsPerItemPerEdition ==
    /\ view.shown = "page" =>
          \A k \in Keys :
              (Rendered(view.path, k) /\ ss.submitted[k]) =>
                  <<view.path, k>> \in hist.submitted
    /\ (last.op = "submit" /\ TotalRows(csv) > TotalRows(last.before)) =>
          last.arg.rating = hist.chosen[last.arg.path][last.arg.key]

=============================================================================
